---- MODULE Spec2Model ----
(***************************************************************************)
(* superclaude-kiro: the installer's reconciliation of ~/.kiro/settings/   *)
(* mcp.json, cli.json and the version marker, as a state machine over the  *)
(* files under ~/.kiro.                                                    *)
(*                                                                         *)
(* JSON objects are TLA+ functions from key strings to values.  A JSON     *)
(* object has an own property k exactly when k is in its DOMAIN.  Objects  *)
(* built by an object literal or by JSON.parse inherit from                *)
(* Object.prototype, so a property read obj[k] of a key that is not an own *)
(* property yields the inherited member when k names one ("constructor",   *)
(* "__proto__"), and an assignment obj["__proto__"] = v sets the prototype *)
(* and creates no own property.                                            *)
(***************************************************************************)
EXTENDS Naturals, Sequences, FiniteSets, TLC

VARIABLES
    kiroDir,    \* ~/.kiro exists
    distDir,    \* the package's dist directory exists
    dirs,       \* which of the directories under ~/.kiro exist
    steering,   \* the files present in ~/.kiro/steering/superclaude
    agents,     \* the agent files present in ~/.kiro/agents
    mcp,        \* content of settings/mcp.json, or NoFile
    cli,        \* content of settings/cli.json, or NoFile
    version,    \* content of docs/superclaude-version.json, or NoFile
    lastRun     \* what the most recent run did (history, read by the properties only)

vars == <<kiroDir, distDir, dirs, steering, agents, mcp, cli, version, lastRun>>

(***************************************************************************)
(* JavaScript values                                                       *)
(***************************************************************************)
\* {} : an object with no own property
EmptyObject == [k \in {} |-> "x"]
\* the JSON value null
JsNull == [null |-> TRUE]
\* the value of a read of a property that is neither own nor inherited
Undefined == [undefined |-> TRUE]
\* a file that does not exist
NoFile == [nofile |-> TRUE]
\* a member every plain object inherits from Object.prototype (a truthy value
\* with none of the registry's fields)
InheritedMember == [inherited |-> TRUE]
\* names of members inherited from Object.prototype that the model covers
ObjectPrototypeKeys == {"constructor", "__proto__"}

\* JavaScript truthiness of the values above (every object is truthy)
Truthy(v) == v # JsNull /\ v # Undefined

\* obj[k] as a read: own property, else inherited member, else undefined
Get(obj, k) ==
    IF k \in DOMAIN obj THEN obj[k]
    ELSE IF k \in ObjectPrototypeKeys THEN InheritedMember
    ELSE Undefined

\* obj.field of a value that may be an object without that field
Field(v, f) == IF f \in DOMAIN v THEN v[f] ELSE Undefined

\* an assignment obj[k] = v creates or overwrites the own property k, except that
\* k = "__proto__" reaches Object.prototype's setter and creates none
CreatesOwnProperty(k) == k # "__proto__"

\* obj[k] = v as an assignment on a plain object
Assign(obj, k, v) ==
    IF ~CreatesOwnProperty(k) THEN obj
    ELSE [x \in (DOMAIN obj) \cup {k} |-> IF x = k THEN v ELSE obj[x]]

\* { ...a, ...b } : own properties of a, then of b (b wins)
Spread(a, b) ==
    [x \in (DOMAIN a) \cup (DOMAIN b) |-> IF x \in DOMAIN b THEN b[x] ELSE a[x]]

\* v || {} for a value that is an object, null or undefined
OrEmpty(v) == IF Truthy(v) THEN v ELSE EmptyObject

(***************************************************************************)
(* The registry (src/src/mcp-servers.js)                                   *)
(***************************************************************************)
MCP_SERVERS ==
    ("sequential-thinking" :>
        [ requiresApiKey |-> FALSE,
          config |-> [ command |-> "npx",
                       args |-> <<"-y", "@modelcontextprotocol/server-sequential-thinking">>,
                       autoApprove |-> <<"sequentialthinking">> ] ])
 @@ ("context7" :>
        [ requiresApiKey |-> FALSE,
          config |-> [ command |-> "npx",
                       args |-> <<"-y", "@upstash/context7-mcp">>,
                       autoApprove |-> <<"resolve-library-id", "get-library-docs">> ] ])
 @@ ("playwright" :>
        [ requiresApiKey |-> FALSE,
          config |-> [ command |-> "npx",
                       args |-> <<"-y", "@playwright/mcp@latest">>,
                       autoApprove |-> <<
                         "browser_close", "browser_resize", "browser_console_messages",
                         "browser_handle_dialog", "browser_evaluate", "browser_file_upload",
                         "browser_fill_form", "browser_install", "browser_press_key",
                         "browser_type", "browser_navigate", "browser_navigate_back",
                         "browser_network_requests", "browser_run_code", "browser_take_screenshot",
                         "browser_snapshot", "browser_click", "browser_drag", "browser_hover",
                         "browser_select_option", "browser_tabs", "browser_wait_for" >> ] ])
 @@ ("serena" :>
        [ requiresApiKey |-> FALSE,
          config |-> [ command |-> "uvx",
                       args |-> << "--from", "git+https://github.com/oraios/serena",
                                   "serena", "start-mcp-server",
                                   "--context", "ide-assistant",
                                   "--enable-web-dashboard", "false",
                                   "--enable-gui-log-window", "false" >>,
                       autoApprove |-> <<
                         "list_dir", "find_file", "search_for_pattern", "get_symbols_overview",
                         "find_symbol", "find_referencing_symbols", "replace_symbol_body",
                         "insert_after_symbol", "insert_before_symbol", "rename_symbol",
                         "write_memory", "read_memory", "list_memories", "delete_memory",
                         "edit_memory", "activate_project", "get_current_config",
                         "check_onboarding_performed", "onboarding", "think_about_collected_information",
                         "think_about_task_adherence", "think_about_whether_you_are_done",
                         "initial_instructions" >> ] ])
 @@ ("morphllm-fast-apply" :>
        [ requiresApiKey |-> TRUE,
          apiKeyEnvVar |-> "MORPH_API_KEY",
          config |-> [ command |-> "npx",
                       args |-> <<"-y", "@morph-llm/morph-fast-apply">>,
                       autoApprove |-> <<"edit_file">> ] ])

\* Object.keys(MCP_SERVERS), in the registry's order
MANAGED_SERVERS ==
    <<"sequential-thinking", "context7", "playwright", "serena", "morphllm-fast-apply">>

\* MANAGED_SERVERS.includes(name)
IsManaged(name) == \E i \in 1..Len(MANAGED_SERVERS) : MANAGED_SERVERS[i] = name

\* the registry's servers that need no API key, in the registry's order
CORE_SERVERS == SelectSeq(MANAGED_SERVERS, LAMBDA n : ~MCP_SERVERS[n].requiresApiKey)

\* no API key: null, undefined and the empty string are all falsy
NoKey == ""
\* apiKeys[name] of a name apiKeys has no own property for but inherits
InheritedKey == "[inherited Object.prototype member]"

\* apiKeys[name]
KeyOf(apiKeys, name) ==
    IF name \in DOMAIN apiKeys THEN apiKeys[name]
    ELSE IF name \in ObjectPrototypeKeys THEN InheritedKey
    ELSE NoKey

\* buildServerConfig with its null result kept as JsNull
buildServerConfig(serverName, apiKey) ==
    LET server == Get(MCP_SERVERS, serverName)
    IN  IF ~Truthy(server) THEN JsNull
        ELSE LET config == Spread(EmptyObject, OrEmpty(Field(server, "config")))
             IN  IF apiKey # NoKey /\ "requiresApiKey" \in DOMAIN server /\ server.requiresApiKey
                 THEN Assign(config, "env", (server.apiKeyEnvVar :> apiKey))
                 ELSE config

(***************************************************************************)
(* configureMcpServers (src/src/installer.js)                              *)
(***************************************************************************)
\* the config read at the start: the file's content, or the default when absent
existingConfig(file) == IF file = NoFile THEN [mcpServers |-> EmptyObject] ELSE file

\* the first loop: newServers[serverName] = config for each selected name whose
\* config is truthy
RECURSIVE newServers(_, _)
newServers(selectedServers, apiKeys) ==
    IF selectedServers = <<>> THEN EmptyObject
    ELSE LET n == Len(selectedServers)
             serverName == selectedServers[n]
             sofar == newServers(SubSeq(selectedServers, 1, n - 1), apiKeys)
             config == buildServerConfig(serverName, KeyOf(apiKeys, serverName))
         IN  IF Truthy(config) THEN Assign(sofar, serverName, config) ELSE sofar

\* existingMcpServers without the default: existingConfig.mcpServers
existingMcpServers_noDefault(existing) == Field(existing, "mcpServers")

\* existingConfig.mcpServers || {}
existingMcpServers(existing) == OrEmpty(Field(existing, "mcpServers"))

\* reading a property of v, and Object.entries(v), throw a TypeError when v is
\* null or undefined
ThrowsOn(v) == v \in {JsNull, Undefined}

\* configureMcpServers throws: existingConfig.mcpServers is read of what readJson
\* returned, and Object.entries is applied to the existing servers
mergeThrows(file) ==
    \/ ThrowsOn(existingConfig(file))
    \/ ThrowsOn(existingMcpServers(existingConfig(file)))

\* userServers with the registry's test left out: every existing entry is kept
userServers_keepManaged(existing) ==
    LET ex == existingMcpServers(existing)
    IN  [name \in {n \in DOMAIN ex : CreatesOwnProperty(n)} |-> ex[name]]

\* the second loop: the user's non-managed servers, each assigned to mergedServers
userServers(existing) ==
    LET ex == existingMcpServers(existing)
    IN  [name \in {n \in DOMAIN ex : ~IsManaged(n) /\ CreatesOwnProperty(n)} |-> ex[name]]

\* mergedEntry writing env even when the merged map is empty
mergedEntry_alwaysEnv(existing, apiKeys, name, config) ==
    LET existingServer == Get(existingMcpServers(existing), name)
    IN  IF Truthy(existingServer)
        THEN Spread(config, [env |-> Spread(OrEmpty(Field(config, "env")),
                                            OrEmpty(Field(existingServer, "env")))])
        ELSE config

\* mergedEntry without the merge: the fresh config replaces the existing entry
mergedEntry_freshOnly(existing, apiKeys, name, config) == config

\* mergedEntry without the override by a new API key: the existing env wins
mergedEntry_noOverride(existing, apiKeys, name, config) ==
    LET existingServer == Get(existingMcpServers(existing), name)
        mergedEnv == Spread(OrEmpty(Field(config, "env")),
                            OrEmpty(Field(existingServer, "env")))
    IN  IF Truthy(existingServer)
        THEN Spread(config, IF DOMAIN mergedEnv # {} THEN [env |-> mergedEnv]
                            ELSE EmptyObject)
        ELSE config

\* mergedEntry spreading the existing entry over the fresh config
mergedEntry_keepUserFields(existing, apiKeys, name, config) ==
    LET existingServer == Get(existingMcpServers(existing), name)
    IN  IF Truthy(existingServer) THEN Spread(config, existingServer) ELSE config

\* the body of the third loop for one name of newServers: the entry written
mergedEntry(existing, apiKeys, name, config) ==
    LET existingServer ==
            IF Truthy(Field(existing, "mcpServers"))
            THEN Get(existing.mcpServers, name) ELSE Undefined
    IN  IF Truthy(existingServer)
        THEN LET env0 == Spread(OrEmpty(Field(config, "env")),
                                OrEmpty(Field(existingServer, "env")))
                 server == Get(MCP_SERVERS, name)
                 mergedEnv ==
                     IF KeyOf(apiKeys, name) # NoKey /\ "apiKeyEnvVar" \in DOMAIN server
                     THEN Assign(env0, server.apiKeyEnvVar, KeyOf(apiKeys, name))
                     ELSE env0
             IN  Spread(config, IF DOMAIN mergedEnv # {} THEN [env |-> mergedEnv]
                                ELSE EmptyObject)
        ELSE config

\* mergedServers built from every server of the registry, whatever the selection
mergedServers_allManaged(existing, selectedServers, apiKeys) ==
    LET new == newServers(selectedServers \o MANAGED_SERVERS, apiKeys)
        user == userServers(existing)
    IN  [name \in (DOMAIN user) \cup (DOMAIN new) |->
            IF name \in DOMAIN new
            THEN mergedEntry(existing, apiKeys, name, new[name])
            ELSE user[name]]

\* mergedServers after both loops
mergedServers(existing, selectedServers, apiKeys) ==
    LET new == newServers(selectedServers, apiKeys)
        user == userServers(existing)
    IN  [name \in (DOMAIN user) \cup (DOMAIN new) |->
            IF name \in DOMAIN new
            THEN mergedEntry(existing, apiKeys, name, new[name])
            ELSE user[name]]

\* mergedConfig as a copy of the config read with its mcpServers replaced
mergedConfig_keepsTopLevel(file, selectedServers, apiKeys) ==
    Spread(existingConfig(file),
           [mcpServers |-> mergedServers(existingConfig(file), selectedServers, apiKeys)])

\* the object written to mcp.json
mergedConfig(file, selectedServers, apiKeys) ==
    [mcpServers |-> mergedServers(existingConfig(file), selectedServers, apiKeys)]

(***************************************************************************)
(* cli.json (src/src/installer.js)                                         *)
(***************************************************************************)
\* JSON scalars of cli.json, tagged by type
Str(s) == [str |-> s]
Bool(b) == [bool |-> b]
Num(n) == [num |-> n]

\* Falsy taking only an absent key for falsy
Falsy_onlyAbsent(v) == v = Undefined

\* the values v for which v || d yields d
Falsy(v) == v \in {Undefined, JsNull, Bool(FALSE), Str(""), Num(0)}

\* setDefaultAgent writing chat.defaultAgent only when the key is absent
setDefaultAgent_keepAgent(file) ==
    LET settings == IF file = NoFile THEN EmptyObject ELSE file
    IN  IF "chat.defaultAgent" \in DOMAIN settings THEN settings
        ELSE Assign(settings, "chat.defaultAgent", Str("superclaude"))

\* setDefaultAgent with chat.enableThinking set to whether the key was absent
setDefaultAgent_absentMeansOn(file) ==
    LET settings == IF file = NoFile THEN EmptyObject ELSE file
        s1 == Assign(settings, "chat.defaultAgent", Str("superclaude"))
        s2 == Assign(s1, "chat.model",
                     IF Falsy(Get(s1, "chat.model")) THEN Str("claude-sonnet-4.5")
                     ELSE s1["chat.model"])
        s3 == Assign(s2, "chat.enableThinking", Bool(Get(s2, "chat.enableThinking") = Undefined))
        s4 == Assign(s3, "chat.enableTodoList", Bool(Get(s3, "chat.enableTodoList") # Bool(FALSE)))
    IN  Assign(s4, "chat.enableDelegate", Bool(Get(s4, "chat.enableDelegate") # Bool(FALSE)))

\* setDefaultAgent: the settings written to cli.json
setDefaultAgent(file) ==
    LET settings == IF file = NoFile THEN EmptyObject ELSE file
        s1 == Assign(settings, "chat.defaultAgent", Str("superclaude"))
        s2 == Assign(s1, "chat.model",
                     IF Falsy(Get(s1, "chat.model")) THEN Str("claude-sonnet-4.5")
                     ELSE s1["chat.model"])
        s3 == Assign(s2, "chat.enableThinking", Bool(Get(s2, "chat.enableThinking") # Bool(FALSE)))
        s4 == Assign(s3, "chat.enableTodoList", Bool(Get(s3, "chat.enableTodoList") # Bool(FALSE)))
    IN  Assign(s4, "chat.enableDelegate", Bool(Get(s4, "chat.enableDelegate") # Bool(FALSE)))

\* resetDefaultAgent deleting the key whatever its value
resetDefaultAgent_always(file) ==
    IF file = NoFile THEN NoFile
    ELSE [k \in (DOMAIN file) \ {"chat.defaultAgent"} |-> file[k]]

\* uninstall's reset of the default agent: cli.json afterwards
resetDefaultAgent(file) ==
    IF file = NoFile THEN NoFile
    ELSE IF Get(file, "chat.defaultAgent") = Str("superclaude")
         THEN [k \in (DOMAIN file) \ {"chat.defaultAgent"} |-> file[k]]
         ELSE file

(***************************************************************************)
(* installSuperClaude: the selection (src/src/installer.js)                *)
(***************************************************************************)
MORPH == "morphllm-fast-apply"

\* selectedServers = null
NullServers == <<"null">>
\* the multi-select was cancelled (selectMcpServers exits the process)
Cancelled == <<"cancelled">>
\* the multi-select was not shown
NotAsked == <<"not asked">>

\* arr.includes(x)
Includes(arr, x) == \E i \in 1..Len(arr) : arr[i] = x

\* ShowsSelect with the multi-select shown whether or not MCP is enabled
ShowsSelect_ignoresMcp(options, tty) ==
    /\ ~options.minimal /\ options.morphApiKey = NoKey
    /\ ~options.withMorph /\ options.interactive /\ tty

\* whether the run shows the server multi-select
ShowsSelect(options, tty) ==
    /\ options.mcp /\ ~options.minimal /\ options.morphApiKey = NoKey
    /\ ~options.withMorph /\ options.interactive /\ tty

\* whether the run asks for the MorphLLM API key after the answer `choice`
AsksKey(options, tty, choice) ==
    /\ options.mcp /\ ~options.minimal /\ options.morphApiKey = NoKey
    /\ \/ options.withMorph /\ tty
       \/ ShowsSelect(options, tty) /\ choice # Cancelled /\ Includes(choice, MORPH)

\* resolveSelection keeping morphllm-fast-apply in the selection when the prompt
\* returned no key
resolveSelection_keepMorph(options, tty, choice, morphKey) ==
    LET res(sel, keys) == [cancelled |-> FALSE, selectedServers |-> sel, apiKeys |-> keys]
    IN  IF ~options.mcp THEN res(options.servers, EmptyObject)
        ELSE IF options.minimal THEN res(CORE_SERVERS, EmptyObject)
        ELSE IF options.morphApiKey # NoKey
             THEN res(CORE_SERVERS \o <<MORPH>>, Assign(EmptyObject, MORPH, options.morphApiKey))
        ELSE IF options.withMorph
             THEN IF tty THEN res(CORE_SERVERS \o <<MORPH>>,
                                  IF morphKey # NoKey THEN Assign(EmptyObject, MORPH, morphKey)
                                  ELSE EmptyObject)
                  ELSE res(CORE_SERVERS, EmptyObject)
        ELSE IF options.interactive /\ tty
             THEN IF choice = Cancelled
                  THEN [cancelled |-> TRUE, selectedServers |-> options.servers,
                        apiKeys |-> EmptyObject]
                  ELSE res(choice, IF Includes(choice, MORPH) /\ morphKey # NoKey
                                   THEN Assign(EmptyObject, MORPH, morphKey)
                                   ELSE EmptyObject)
        ELSE res(CORE_SERVERS, EmptyObject)

\* resolveSelection with --morph-api-key tested before --minimal
resolveSelection_keyBeforeMinimal(options, tty, choice, morphKey) ==
    LET res(sel, keys) == [cancelled |-> FALSE, selectedServers |-> sel, apiKeys |-> keys]
    IN  IF ~options.mcp THEN res(options.servers, EmptyObject)
        ELSE IF options.morphApiKey # NoKey
             THEN res(CORE_SERVERS \o <<MORPH>>, Assign(EmptyObject, MORPH, options.morphApiKey))
        ELSE IF options.minimal THEN res(CORE_SERVERS, EmptyObject)
        ELSE IF options.withMorph
             THEN IF tty /\ morphKey # NoKey
                  THEN res(CORE_SERVERS \o <<MORPH>>, Assign(EmptyObject, MORPH, morphKey))
                  ELSE res(CORE_SERVERS, EmptyObject)
        ELSE IF options.interactive /\ tty
             THEN IF choice = Cancelled
                  THEN [cancelled |-> TRUE, selectedServers |-> options.servers,
                        apiKeys |-> EmptyObject]
                  ELSE IF Includes(choice, MORPH)
                       THEN IF morphKey # NoKey
                            THEN res(choice, Assign(EmptyObject, MORPH, morphKey))
                            ELSE res(SelectSeq(choice, LAMBDA s : s # MORPH), EmptyObject)
                       ELSE res(choice, EmptyObject)
        ELSE res(CORE_SERVERS, EmptyObject)

\* step 4: selectedServers and apiKeys.  options.interactive stands for
\* options.interactive !== false; morphKey is what promptMorphApiKeyQuick or
\* promptMorphLLMSetup returns (NoKey for null)
resolveSelection(options, tty, choice, morphKey) ==
    LET res(sel, keys) == [cancelled |-> FALSE, selectedServers |-> sel, apiKeys |-> keys]
    IN  IF ~options.mcp THEN res(options.servers, EmptyObject)
        ELSE IF options.minimal THEN res(CORE_SERVERS, EmptyObject)
        ELSE IF options.morphApiKey # NoKey
             THEN res(CORE_SERVERS \o <<MORPH>>, Assign(EmptyObject, MORPH, options.morphApiKey))
        ELSE IF options.withMorph
             THEN IF tty /\ morphKey # NoKey
                  THEN res(CORE_SERVERS \o <<MORPH>>, Assign(EmptyObject, MORPH, morphKey))
                  ELSE res(CORE_SERVERS, EmptyObject)
        ELSE IF options.interactive /\ tty
             THEN IF choice = Cancelled
                  THEN [cancelled |-> TRUE, selectedServers |-> options.servers,
                        apiKeys |-> EmptyObject]
                  ELSE IF Includes(choice, MORPH)
                       THEN IF morphKey # NoKey
                            THEN res(choice, Assign(EmptyObject, MORPH, morphKey))
                            ELSE res(SelectSeq(choice, LAMBDA s : s # MORPH), EmptyObject)
                       ELSE res(choice, EmptyObject)
        ELSE res(CORE_SERVERS, EmptyObject)

(***************************************************************************)
(* The MorphLLM prompts (src/src/prompts.js)                               *)
(***************************************************************************)
\* what the user does at a prompt: Cancel aborts it (Ctrl-C or Esc), NotShown
\* stands for a prompt the run never reaches
Cancel == "cancel"
NotShown == "-"

\* no MorphLLM prompt is shown
NoMorphAnswer == [hasKey |-> NotShown, wannaWait |-> NotShown, apiKey |-> NotShown]

\* promptMorphLLMSetup: the key it returns (NoKey for null).  A cancelled
\* "Do you have a key?" counts as no; a cancelled or declined "enter it now?"
\* and a cancelled key entry return null
promptMorphLLMSetup(a) ==
    IF a.hasKey # "yes" /\ a.wannaWait # "yes" THEN NoKey
    ELSE IF a.apiKey = Cancel THEN NoKey
    ELSE a.apiKey

\* promptMorphApiKeyQuick: the key it returns (NoKey for null); Enter on an
\* empty line and a cancelled prompt both return null
promptMorphApiKeyQuick(a) ==
    IF a.apiKey = Cancel \/ a.apiKey = "" THEN NoKey ELSE a.apiKey

(***************************************************************************)
(* The files                                                               *)
(***************************************************************************)
STEERING_DIR == "steering/superclaude"
InstallDirs == {STEERING_DIR, "agents", "settings", "docs"}
\* what the package's dist directory holds
DistAgents == {"superclaude.json", "sc-pm.json", "sc-implement.json", "sc-analyze.json"}
DistSteering == {"sc-help.md", "sc-analyze.md"}
\* the agent files uninstall removes
UninstallAgents == {"superclaude.json", "sc-pm.json", "sc-implement.json", "sc-analyze.json"}
\* pkg.version
PkgVersion == "pkg.version"

\* versionMarker recording the core servers whatever the selection
versionMarker_alwaysCore(selectedServers) ==
    [ version |-> PkgVersion,
      source |-> "npm:superclaude-kiro",
      mcpServers |-> IF selectedServers = NullServers THEN <<>> ELSE CORE_SERVERS ]

\* the version marker written by step 10 (installedAt, a timestamp, is left out)
versionMarker(selectedServers) ==
    [ version |-> PkgVersion,
      source |-> "npm:superclaude-kiro",
      mcpServers |-> IF selectedServers = NullServers THEN <<>> ELSE selectedServers ]

\* the marker an earlier release of the installer wrote: no mcpServers list
LegacyMarker == [version |-> "earlier", source |-> "npm:superclaude-kiro"]

\* the command-line flags behind the options of a run
FlagsOf(options) ==
    {f \in {"--force", "--no-mcp", "--no-default", "--no-interactive", "--minimal",
            "--with-morph", "--morph-api-key"} :
        \/ f = "--force" /\ options.force
        \/ f = "--no-mcp" /\ ~options.mcp
        \/ f = "--no-default" /\ ~options.default
        \/ f = "--no-interactive" /\ ~options.interactive
        \/ f = "--minimal" /\ options.minimal
        \/ f = "--with-morph" /\ options.withMorph
        \/ f = "--morph-api-key" /\ options.morphApiKey # NoKey}

\* the flags lastRun keeps
RecordedFlags == {"--force", "--no-default", "--with-morph", "--morph-api-key"}

\* lastRun: the command run last, how it ended, the recorded flags it was given,
\* whether it called configureMcpServers and with which arguments; existing is
\* the file content read by a function run on its own (mcp.json for
\* configureMcpServers, cli.json for setDefaultAgent; NoFile otherwise); prompts
\* tells whether the run showed no prompt ("none"), or showed some and had the
\* server multi-select cancelled ("select cancelled"), a MorphLLM prompt
\* cancelled ("morph cancelled") or none cancelled ("answered"); replaced is the
\* content of mcp.json that the write of a configureMcpServers run in two steps,
\* a read and a write, has replaced (NoFile otherwise)
NoRun ==
    [ op |-> "none", outcome |-> "none", flags |-> {}, configured |-> FALSE,
      selectedServers |-> NullServers, apiKeys |-> EmptyObject, existing |-> NoFile,
      prompts |-> "none", replaced |-> NoFile ]

Ran(op, outcome, flags, configured, sel, keys) ==
    [ op |-> op, outcome |-> outcome, flags |-> flags \cap RecordedFlags,
      configured |-> configured, selectedServers |-> sel, apiKeys |-> keys,
      existing |-> NoFile, prompts |-> "none", replaced |-> NoFile ]

(***************************************************************************)
(* Bounds on the inputs                                                    *)
(***************************************************************************)
\* most entries of mcpServers in an initial mcp.json
MaxExisting == 2
\* longest selection handed to configureMcpServers on its own
MaxSel == 2

\* most entries of mcpServers in the mcp.json found by the first run
MaxInit == 1

\* API keys a user may give
Keys == {"key-AAAAAAAAAA", "key-BBBBBBBBBB"}
\* the key given with --morph-api-key, and the key typed at a prompt
FlagKeys == {"key-AAAAAAAAAA"}
TypedKeys == {"key-BBBBBBBBBB"}

\* entries a user may hold in mcp.json before a run, by name
UserServer == [command |-> "node", args |-> <<"my-server.js">>, env |-> [TOKEN |-> "t0"]]
EditedSerena ==
    [ command |-> "uvx", args |-> <<"serena-dev">>, disabled |-> TRUE,
      env |-> [SERENA_LOG |-> "debug"] ]
StaleSerena == [command |-> "old"]
MorphWithKey(k) == Spread(MCP_SERVERS[MORPH].config, [env |-> [MORPH_API_KEY |-> k]])
MorphEmptyEnv == Spread(MCP_SERVERS[MORPH].config, [env |-> EmptyObject])

\* the entries an mcp.json handed to configureMcpServers on its own may hold
MergeEntries(name) ==
    CASE name = "my-server" -> {UserServer}
      [] name = "__proto__" -> {[command |-> "node"]}
      [] name = "serena" -> {EditedSerena, StaleSerena, JsNull}
      [] name = MORPH -> {MorphWithKey("key-old"), MorphEmptyEnv}

MergeNames == {"my-server", "__proto__", "serena", MORPH}

\* the entries mcp.json may hold before the first run
InitEntries(name) ==
    CASE name = "my-server" -> {UserServer}
      [] name = "__proto__" -> {[command |-> "node"]}
      [] name = "serena" -> {EditedSerena}
      [] name = MORPH -> {MorphWithKey("key-old")}

InitNames == {"my-server", "__proto__", "serena", MORPH}

\* the maps of at most n entries over the names N, each entry drawn from E(name)
ExistingMaps(N, E(_), n) ==
    UNION { { f \in [S -> UNION {E(x) : x \in S}] : \A x \in S : f[x] \in E(x) } :
            S \in {T \in SUBSET N : Cardinality(T) <= n} }

\* mcp.json before the first run
InitMcp ==
    {NoFile} \cup {[mcpServers |-> m] : m \in ExistingMaps(InitNames, InitEntries, MaxInit)}

\* the mcp.json files configureMcpServers is run on, on its own
MergeInputs ==
    {NoFile, JsNull, [inputs |-> EmptyObject]}
    \cup {[mcpServers |-> m] : m \in ExistingMaps(MergeNames, MergeEntries, MaxExisting)}
    \cup {[mcpServers |-> m, inputs |-> EmptyObject] :
            m \in ExistingMaps(MergeNames, MergeEntries, 1)}

\* cli.json before the first run
InitCli ==
    { NoFile,
      ("chat.defaultAgent" :> Str("other")) @@ ("chat.model" :> Str("custom"))
        @@ ("chat.enableThinking" :> Bool(FALSE)) @@ ("theme" :> Str("dark")) }

\* what the user answers to the multi-select: a sublist of the registry's names
Choices ==
    { CORE_SERVERS, CORE_SERVERS \o <<MORPH>>, <<"serena">>, <<"serena", MORPH>>, <<>>,
      Cancelled }

InstallOptions ==
    [ force : BOOLEAN, mcp : BOOLEAN, default : BOOLEAN, interactive : BOOLEAN,
      minimal : BOOLEAN, withMorph : BOOLEAN, morphApiKey : FlagKeys \cup {NoKey},
      servers : {NullServers} ]

\* what the user may do at the prompts of promptMorphLLMSetup
SetupAnswers ==
    { a \in [ hasKey : {"yes", "no", Cancel}, wannaWait : {"yes", "no", Cancel, NotShown},
              apiKey : TypedKeys \cup {Cancel, NotShown} ] :
        /\ (a.wannaWait = NotShown) = (a.hasKey = "yes")
        /\ (a.apiKey = NotShown) = (a.hasKey # "yes" /\ a.wannaWait # "yes") }

\* what the user may do at the prompt of promptMorphApiKeyQuick
QuickAnswers ==
    [hasKey : {NotShown}, wannaWait : {NotShown}, apiKey : TypedKeys \cup {"", Cancel}]

\* the answers a run with these options can be given
Answers(options, tty) ==
    { a \in [ choice : Choices \cup {NotAsked},
              morph : SetupAnswers \cup QuickAnswers \cup {NoMorphAnswer} ] :
        /\ (a.choice = NotAsked) = ~ShowsSelect(options, tty)
        /\ a.morph \in IF ~AsksKey(options, tty, a.choice) THEN {NoMorphAnswer}
                       ELSE IF options.withMorph THEN QuickAnswers
                       ELSE SetupAnswers }

\* the key the MorphLLM prompt of the run returns
MorphKeyOf(options, answer) ==
    IF answer.morph = NoMorphAnswer THEN NoKey
    ELSE IF options.withMorph THEN promptMorphApiKeyQuick(answer.morph)
    ELSE promptMorphLLMSetup(answer.morph)

\* what lastRun.prompts records of the answers
PromptsOf(answer) ==
    IF answer.choice = NotAsked /\ answer.morph = NoMorphAnswer THEN "none"
    ELSE IF answer.choice = Cancelled THEN "select cancelled"
    ELSE IF Cancel \in {answer.morph.hasKey, answer.morph.wannaWait, answer.morph.apiKey}
         THEN "morph cancelled"
         ELSE "answered"

(***************************************************************************)
(* The runs                                                                *)
(***************************************************************************)
Init ==
    /\ kiroDir \in BOOLEAN
    /\ distDir \in BOOLEAN
    /\ mcp \in IF kiroDir THEN InitMcp ELSE {NoFile}
    /\ cli \in IF kiroDir THEN InitCli ELSE {NoFile}
    /\ \/ /\ version = NoFile
          /\ dirs = IF mcp = NoFile /\ cli = NoFile THEN {} ELSE {"settings"}
          /\ steering = {}
          /\ agents = {}
       \/ /\ kiroDir
          /\ version = LegacyMarker
          /\ dirs = InstallDirs
          /\ steering = DistSteering
          /\ agents = DistAgents
    /\ lastRun = NoRun

\* PrecheckFails without the check for an installation already there
PrecheckFails_noInstalledCheck(options) == ~kiroDir \/ ~distDir

\* steps 1 to 3 of installSuperClaude: a precondition of the run fails
PrecheckFails(options) ==
    \/ ~kiroDir
    \/ STEERING_DIR \in dirs /\ ~options.force
    \/ ~distDir

\* what update, uninstall and status each take for "SuperClaude is installed"
UpdateSeesInstalled == version # NoFile
UninstallSeesInstalled_always == TRUE
UninstallSeesInstalled == STEERING_DIR \in dirs
StatusSeesInstalled == kiroDir /\ version # NoFile /\ STEERING_DIR \in dirs

\* installSuperClaude(options) on a terminal (tty) or not, with the user's
\* answers; lastRun keeps the flags in `recorded`
InstallRunRecording(op, options, tty, answer, recorded) ==
    LET ran(outcome, configured, sel, keys) ==
            [Ran(op, outcome, FlagsOf(options), configured, sel, keys)
                EXCEPT !.flags = FlagsOf(options) \cap recorded]
    IN
    IF PrecheckFails(options)
    THEN /\ lastRun' = ran("exit 1", FALSE, NullServers, EmptyObject)
         /\ UNCHANGED <<kiroDir, distDir, dirs, steering, agents, mcp, cli, version>>
    ELSE LET r == resolveSelection(options, tty, answer.choice, MorphKeyOf(options, answer))
             configure == options.mcp /\ r.selectedServers # NullServers
         IN  IF r.cancelled
             THEN /\ lastRun' = [ran("exit 0", FALSE, NullServers, EmptyObject)
                                     EXCEPT !.prompts = "select cancelled"]
                  /\ UNCHANGED <<kiroDir, distDir, dirs, steering, agents, mcp, cli, version>>
             ELSE /\ dirs' = dirs \cup InstallDirs
                  /\ steering' = steering \cup DistSteering
                  /\ agents' = agents \cup DistAgents
                  /\ mcp' = IF configure
                            THEN mergedConfig(mcp, r.selectedServers, r.apiKeys)
                            ELSE mcp
                  /\ cli' = IF options.default THEN setDefaultAgent(cli) ELSE cli
                  /\ version' = versionMarker(r.selectedServers)
                  /\ lastRun' = [ran("ok", configure, r.selectedServers, r.apiKeys)
                                     EXCEPT !.prompts = PromptsOf(answer)]
                  /\ UNCHANGED <<kiroDir, distDir>>

\* installSuperClaude(options), lastRun keeping the recorded flags
InstallRun(op, options, tty, answer) ==
    InstallRunRecording(op, options, tty, answer, RecordedFlags)

\* superclaude-kiro install
Install ==
    \E options \in InstallOptions, tty \in BOOLEAN :
        \E answer \in Answers(options, tty) :
            InstallRun("install", options, tty, answer)

\* superclaude-kiro update [--with-morph] [--morph-api-key <key>]
Update ==
    \E withMorph \in BOOLEAN, morphApiKey \in FlagKeys \cup {NoKey}, tty \in BOOLEAN :
        IF ~UpdateSeesInstalled
        THEN /\ lastRun' = Ran("update", "exit 1", {}, FALSE, NullServers, EmptyObject)
             /\ UNCHANGED <<kiroDir, distDir, dirs, steering, agents, mcp, cli, version>>
        ELSE LET existingServers ==
                     IF "mcpServers" \in DOMAIN version THEN version.mcpServers
                     ELSE CORE_SERVERS
                 options ==
                     [ force |-> TRUE, mcp |-> TRUE, default |-> TRUE,
                       servers |-> existingServers, interactive |-> FALSE,
                       minimal |-> FALSE,
                       withMorph |-> withMorph, morphApiKey |-> morphApiKey ]
             IN  \E answer \in Answers(options, tty) :
                     InstallRun("update", options, tty, answer)

\* uninstall leaving the version marker where it is
Uninstall_leavesMarker ==
    IF ~UninstallSeesInstalled
    THEN /\ lastRun' = Ran("uninstall", "exit 1", {}, FALSE, NullServers, EmptyObject)
         /\ UNCHANGED <<kiroDir, distDir, dirs, steering, agents, mcp, cli, version>>
    ELSE /\ dirs' = dirs \ {STEERING_DIR}
         /\ steering' = {}
         /\ agents' = agents \ UninstallAgents
         /\ cli' = resetDefaultAgent(cli)
         /\ lastRun' = Ran("uninstall", "ok", {}, FALSE, NullServers, EmptyObject)
         /\ UNCHANGED <<kiroDir, distDir, mcp, version>>

\* uninstall removing the managed entries of mcp.json as well
Uninstall_removesManaged ==
    IF ~UninstallSeesInstalled
    THEN /\ lastRun' = Ran("uninstall", "exit 1", {}, FALSE, NullServers, EmptyObject)
         /\ UNCHANGED <<kiroDir, distDir, dirs, steering, agents, mcp, cli, version>>
    ELSE /\ dirs' = dirs \ {STEERING_DIR}
         /\ steering' = {}
         /\ agents' = agents \ UninstallAgents
         /\ version' = NoFile
         /\ cli' = resetDefaultAgent(cli)
         /\ mcp' = IF mcp = NoFile THEN NoFile
                   ELSE Spread(mcp, [mcpServers |-> userServers(mcp)])
         /\ lastRun' = Ran("uninstall", "ok", {}, FALSE, NullServers, EmptyObject)
         /\ UNCHANGED <<kiroDir, distDir>>

\* superclaude-kiro uninstall
Uninstall ==
    IF ~UninstallSeesInstalled
    THEN /\ lastRun' = Ran("uninstall", "exit 1", {}, FALSE, NullServers, EmptyObject)
         /\ UNCHANGED <<kiroDir, distDir, dirs, steering, agents, mcp, cli, version>>
    ELSE /\ dirs' = dirs \ {STEERING_DIR}
         /\ steering' = {}
         /\ agents' = agents \ UninstallAgents
         /\ version' = NoFile
         /\ cli' = resetDefaultAgent(cli)
         /\ lastRun' = Ran("uninstall", "ok", {}, FALSE, NullServers, EmptyObject)
         /\ UNCHANGED <<kiroDir, distDir, mcp>>

\* superclaude-kiro status: what getStatus reports
Status ==
    /\ lastRun' = Ran("status",
                      IF ~kiroDir THEN "Not installed (Kiro CLI missing)"
                      ELSE IF ~StatusSeesInstalled THEN "Not installed"
                      ELSE "Installed",
                      {}, FALSE, NullServers, EmptyObject)
    /\ UNCHANGED <<kiroDir, distDir, dirs, steering, agents, mcp, cli, version>>

Next == Install \/ Update \/ Uninstall \/ Status

Spec == Init /\ [][Next]_vars

(***************************************************************************)
(* configureMcpServers on its own, over bounded inputs                     *)
(***************************************************************************)
\* names a selection may hold: two registry names, a name the registry does not
\* know (a user's own server in some inputs), and a name every object inherits
SelNames == {"serena", MORPH, "my-server", "constructor"}

\* the sequences of at most n distinct elements of S
RECURSIVE SeqsUpTo(_, _)
SeqsUpTo(S, n) ==
    IF n = 0 THEN {<<>>}
    ELSE LET shorter == SeqsUpTo(S, n - 1)
         IN  shorter \cup
             UNION { {Append(q, x) : x \in {y \in S : ~Includes(q, y)}} : q \in shorter }

Selections == SeqsUpTo(SelNames, MaxSel)

\* the apiKeys arguments
ApiKeyMaps ==
    {EmptyObject} \cup {Assign(EmptyObject, MORPH, k) : k \in Keys}
    \cup {Assign(EmptyObject, "serena", "key-AAAAAAAAAA")}

InitMerge ==
    /\ kiroDir = TRUE
    /\ distDir = TRUE
    /\ mcp \in MergeInputs
    /\ cli = NoFile
    /\ version = NoFile
    /\ dirs = IF mcp = NoFile THEN {} ELSE {"settings"}
    /\ steering = {}
    /\ agents = {}
    /\ lastRun = NoRun

\* configureMcpServers(selectedServers, apiKeys)
ConfigureMcpServers(selectedServers, apiKeys) ==
    /\ IF mergeThrows(mcp)
       THEN /\ lastRun' = [Ran("configureMcpServers", "TypeError", {}, TRUE,
                               selectedServers, apiKeys) EXCEPT !.existing = mcp]
            /\ UNCHANGED <<mcp, dirs>>
       ELSE /\ mcp' = mergedConfig(mcp, selectedServers, apiKeys)
            /\ dirs' = dirs \cup {"settings"}
            /\ lastRun' = [Ran("configureMcpServers", "ok", {}, TRUE, selectedServers,
                               apiKeys) EXCEPT !.existing = mcp]
    /\ UNCHANGED <<kiroDir, distDir, steering, agents, cli, version>>

NextMerge ==
    \E selectedServers \in Selections, apiKeys \in ApiKeyMaps :
        ConfigureMcpServers(selectedServers, apiKeys)

SpecMerge == InitMerge /\ [][NextMerge]_vars

(***************************************************************************)
(* Runs with failing file operations, over a file system with user files   *)
(***************************************************************************)
\* the file operations of steps 5 to 10 of installSuperClaude, in order
InstallSteps_markerFirst ==
    << "writeJson version", "ensureDir", "copy steering", "copy agents",
       "configureMcpServers", "setDefaultAgent" >>

InstallSteps ==
    << "ensureDir", "copy steering", "copy agents", "configureMcpServers",
       "setDefaultAgent", "writeJson version" >>

\* the position of a step in the run
StepIndex(step) == CHOOSE i \in 1..Len(InstallSteps) : InstallSteps[i] = step

\* the step was completed by a run that failed at failAt
Done(step, failAt) == StepIndex(step) < StepIndex(failAt)

\* how a run ended whose file operation `step` threw: the catch block prints
\* the error and exits with code 1
FailedAt(step) == "exit 1: " \o step \o " failed"
FailedOutcomes == {FailedAt(InstallSteps[i]) : i \in 1..Len(InstallSteps)}

\* the install runs of this specification: without prompts and morph flags
PlainOptions ==
    { o \in InstallOptions :
        ~o.minimal /\ ~o.withMorph /\ ~o.interactive /\ o.morphApiKey = NoKey }

\* superclaude-kiro install [--force] [--no-mcp] [--no-default] --no-interactive
InstallPlain ==
    \E options \in PlainOptions :
        InstallRun("install", options, FALSE, [choice |-> NotAsked, morph |-> NoMorphAnswer])

\* an install run whose file operation failAt throws: the steps before it have
\* been carried out and stay so, the failing step and those after it have not
InstallFails ==
    \E options \in PlainOptions, failAt \in {InstallSteps[i] : i \in 1..Len(InstallSteps)} :
        LET r == resolveSelection(options, FALSE, NotAsked, NoKey)
            configure == options.mcp /\ r.selectedServers # NullServers
        IN  /\ ~PrecheckFails(options)
            /\ failAt = "configureMcpServers" => configure
            /\ failAt = "setDefaultAgent" => options.default
            /\ dirs' = IF Done("ensureDir", failAt) THEN dirs \cup InstallDirs ELSE dirs
            /\ steering' = IF Done("copy steering", failAt) THEN steering \cup DistSteering
                           ELSE steering
            /\ agents' = IF Done("copy agents", failAt) THEN agents \cup DistAgents ELSE agents
            /\ mcp' = IF Done("configureMcpServers", failAt) /\ configure
                      THEN mergedConfig(mcp, r.selectedServers, r.apiKeys)
                      ELSE mcp
            /\ cli' = IF Done("setDefaultAgent", failAt) /\ options.default
                      THEN setDefaultAgent(cli) ELSE cli
            /\ version' = IF Done("writeJson version", failAt)
                          THEN versionMarker(r.selectedServers) ELSE version
            /\ lastRun' = Ran("install", FailedAt(failAt), FlagsOf(options),
                              Done("configureMcpServers", failAt) /\ configure,
                              r.selectedServers, r.apiKeys)
            /\ UNCHANGED <<kiroDir, distDir>>

\* an mcp.json with an entry of the user's and a managed entry
UserMcp ==
    [mcpServers |-> ("my-server" :> UserServer) @@ (MORPH :> MorphWithKey("key-old"))]

\* agent files of the user's own
UserAgents == {"my-agent.json"}

InitIO ==
    /\ kiroDir \in BOOLEAN
    /\ distDir \in BOOLEAN
    /\ mcp \in IF kiroDir THEN {NoFile, UserMcp} ELSE {NoFile}
    /\ cli \in IF kiroDir THEN InitCli ELSE {NoFile}
    /\ \/ /\ version = NoFile
          /\ agents \in IF kiroDir THEN {{}, UserAgents} ELSE {{}}
          /\ dirs = (IF mcp = NoFile /\ cli = NoFile THEN {} ELSE {"settings"})
                    \cup (IF agents = {} THEN {} ELSE {"agents"})
          /\ steering = {}
       \/ /\ kiroDir
          /\ version = LegacyMarker
          /\ dirs = InstallDirs
          /\ steering = DistSteering
          /\ agents = DistAgents \cup UserAgents
    /\ lastRun = NoRun

NextIO == InstallPlain \/ InstallFails \/ Update \/ Uninstall \/ Status

SpecIO == InitIO /\ [][NextIO]_vars

(***************************************************************************)
(* setDefaultAgent and uninstall's reset of the default agent, on their own *)
(***************************************************************************)
\* the values cli.json may hold under the keys installSuperClaude manages;
\* Undefined stands for an absent key
AgentValues == {Undefined, Str("other"), Str("superclaude")}
ModelValues == {Undefined, Str("custom"), Str(""), JsNull, Num(0)}
FlagValues == {Undefined, Bool(TRUE), Bool(FALSE), JsNull, Num(0), Str(""), Str("yes")}
OtherFlagValues == {Undefined, Bool(FALSE), Str("yes")}

\* the four settings setDefaultAgent gives a default to
DefaultedKeys ==
    {"chat.model", "chat.enableThinking", "chat.enableTodoList", "chat.enableDelegate"}

\* the settings object holding the given values, absent keys left out
SettingsOf(f) == [k \in {x \in DOMAIN f : f[x] # Undefined} |-> f[k]]

\* the cli.json files setDefaultAgent is run on, on its own
CliInputs ==
    {NoFile} \cup
    { SettingsOf(("chat.defaultAgent" :> a) @@ ("chat.model" :> m)
                 @@ ("chat.enableThinking" :> t) @@ ("chat.enableTodoList" :> l)
                 @@ ("chat.enableDelegate" :> d) @@ ("theme" :> th)) :
        a \in AgentValues, m \in ModelValues, t \in FlagValues,
        l \in OtherFlagValues, d \in OtherFlagValues,
        th \in {Undefined, Str("dark")} }

InitCliOnly ==
    /\ kiroDir = TRUE
    /\ distDir = TRUE
    /\ mcp = NoFile
    /\ cli \in CliInputs
    /\ version = NoFile
    /\ dirs = IF cli = NoFile THEN {} ELSE {"settings"}
    /\ steering = {}
    /\ agents = {}
    /\ lastRun = NoRun

\* setDefaultAgent()
SetDefaultAgent ==
    /\ cli' = setDefaultAgent(cli)
    /\ dirs' = dirs \cup {"settings"}
    /\ lastRun' = [Ran("setDefaultAgent", "ok", {}, FALSE, NullServers, EmptyObject)
                       EXCEPT !.existing = cli]
    /\ UNCHANGED <<kiroDir, distDir, steering, agents, mcp, version>>

\* the reset of the default agent that uninstallSuperClaude ends with
ResetDefaultAgent ==
    /\ cli' = resetDefaultAgent(cli)
    /\ lastRun' = [Ran("resetDefaultAgent", "ok", {}, FALSE, NullServers, EmptyObject)
                       EXCEPT !.existing = cli]
    /\ UNCHANGED <<kiroDir, distDir, dirs, steering, agents, mcp, version>>

NextCli == SetDefaultAgent \/ ResetDefaultAgent

SpecCli == InitCliOnly /\ [][NextCli]_vars

(***************************************************************************)
(* Properties                                                              *)
(***************************************************************************)
\* the names of the registry
RegistryNames == DOMAIN MCP_SERVERS

\* the mcpServers map of an mcp.json content (empty when the file or the key is absent)
ServersOf(file) ==
    IF file = NoFile \/ "mcpServers" \notin DOMAIN file THEN EmptyObject
    ELSE file.mcpServers

\* a call of configureMcpServers on its own has run: lastRun holds its arguments,
\* lastRun.existing what it read, mcp what it wrote
MergeRan == lastRun.op = "configureMcpServers" /\ lastRun.outcome = "ok"
Before == ServersOf(lastRun.existing)
After == ServersOf(mcp)
Selected(n) == Includes(lastRun.selectedServers, n)

\* an entry that is a JSON object carrying an env object
HasEnv(m, n) == n \in DOMAIN m /\ "env" \in DOMAIN m[n]

\* an entry without its env
WithoutEnv(entry) == [k \in (DOMAIN entry) \ {"env"} |-> entry[k]]

\* C1: after any run of install, update or uninstall, every entry of mcp.json's
\* mcpServers whose name is not in the registry is still present with the same
\* value (stated for every step, hence for every sequence of runs)
C1_UnmanagedEntriesKept ==
    [][\A n \in DOMAIN ServersOf(mcp) :
          n \notin RegistryNames =>
              /\ n \in DOMAIN ServersOf(mcp')
              /\ ServersOf(mcp')[n] = ServersOf(mcp)[n]]_vars

\* what holds of the code: every unmanaged entry is kept, except an entry named
\* "__proto__", which the assignment mergedServers[name] = config never stores
UnmanagedKeptUnlessProto ==
    [][\A n \in DOMAIN ServersOf(mcp) :
          (n \notin RegistryNames /\ n # "__proto__") =>
              /\ n \in DOMAIN ServersOf(mcp')
              /\ ServersOf(mcp')[n] = ServersOf(mcp)[n]]_vars

\* C2: reconciliation is idempotent: merging what configureMcpServers wrote, with
\* the same selection and API keys, writes the same file again
C2_Idempotent ==
    MergeRan => mergedConfig(mcp, lastRun.selectedServers, lastRun.apiKeys) = mcp

\* C2's case: the first call rewrote an existing managed entry that carried an env
C2_Witness ==
    /\ MergeRan
    /\ Selected("serena")
    /\ HasEnv(Before, "serena")
    /\ mcp # lastRun.existing

\* C3: a managed entry X with an env, selected, with no API key supplied for X:
\* the written entry X keeps every env key with its prior value
C3_SecretPreserved ==
    MergeRan =>
        \A X \in RegistryNames :
            (HasEnv(Before, X) /\ Selected(X) /\ KeyOf(lastRun.apiKeys, X) = NoKey) =>
                \A k \in DOMAIN Before[X].env :
                    /\ HasEnv(After, X)
                    /\ k \in DOMAIN After[X].env
                    /\ After[X].env[k] = Before[X].env[k]

\* C3's case: morphllm-fast-apply held MORPH_API_KEY = "key-old", was selected and
\* no key was supplied
C3_Witness ==
    /\ MergeRan
    /\ HasEnv(Before, MORPH)
    /\ "MORPH_API_KEY" \in DOMAIN Before[MORPH].env
    /\ Before[MORPH].env.MORPH_API_KEY = "key-old"
    /\ Selected(MORPH)
    /\ KeyOf(lastRun.apiKeys, MORPH) = NoKey

\* C4: an API key supplied for a selected server that requires one is the value of
\* the written entry's apiKeyEnvVar, whatever the existing entry held
C4_SecretOverride ==
    MergeRan =>
        \A X \in RegistryNames :
            (Selected(X) /\ MCP_SERVERS[X].requiresApiKey
                /\ KeyOf(lastRun.apiKeys, X) # NoKey) =>
                /\ HasEnv(After, X)
                /\ MCP_SERVERS[X].apiKeyEnvVar \in DOMAIN After[X].env
                /\ After[X].env[MCP_SERVERS[X].apiKeyEnvVar] = KeyOf(lastRun.apiKeys, X)

\* C4's case: the existing entry held another value for MORPH_API_KEY
C4_Witness ==
    /\ MergeRan
    /\ HasEnv(Before, MORPH)
    /\ "MORPH_API_KEY" \in DOMAIN Before[MORPH].env
    /\ Before[MORPH].env.MORPH_API_KEY = "key-old"
    /\ Selected(MORPH)
    /\ KeyOf(lastRun.apiKeys, MORPH) = "key-BBBBBBBBBB"

\* C5 as claimed: a morphllm-fast-apply entry with env.MORPH_API_KEY = K is still
\* there, with K, after any successful install --force or update that supplies no
\* API key
C5_SecretsSurviveReinstall ==
    [][( /\ HasEnv(ServersOf(mcp), MORPH)
         /\ "MORPH_API_KEY" \in DOMAIN ServersOf(mcp)[MORPH].env
         /\ lastRun'.op \in {"install", "update"}
         /\ lastRun'.outcome = "ok"
         /\ lastRun'.op = "install" => "--force" \in lastRun'.flags
         /\ "--morph-api-key" \notin lastRun'.flags
         /\ MORPH \notin DOMAIN lastRun'.apiKeys )
       => /\ HasEnv(ServersOf(mcp'), MORPH)
          /\ "MORPH_API_KEY" \in DOMAIN ServersOf(mcp')[MORPH].env
          /\ ServersOf(mcp')[MORPH].env.MORPH_API_KEY
                = ServersOf(mcp)[MORPH].env.MORPH_API_KEY]_vars

\* C5 as amended: after a successful install --force or update, a managed entry
\* that the run's selection includes (or any managed entry, when the run does not
\* reconcile mcp.json) and for which the run supplies no API key is still there
\* with every env value it had
C5_SelectedSecretsSurvive ==
    [][\A n \in RegistryNames :
         ( /\ HasEnv(ServersOf(mcp), n)
           /\ lastRun'.op \in {"install", "update"}
           /\ lastRun'.outcome = "ok"
           /\ lastRun'.op = "install" => "--force" \in lastRun'.flags
           /\ n \notin DOMAIN lastRun'.apiKeys
           /\ lastRun'.configured => Includes(lastRun'.selectedServers, n) )
         => /\ HasEnv(ServersOf(mcp'), n)
            /\ \A k \in DOMAIN ServersOf(mcp)[n].env :
                  /\ k \in DOMAIN ServersOf(mcp')[n].env
                  /\ ServersOf(mcp')[n].env[k] = ServersOf(mcp)[n].env[k]]_vars

\* C5's case: an update reconciled mcp.json with serena selected, and the env the
\* user had set on the serena entry (the registry gives serena none) is there
C5_Witness ==
    /\ lastRun.op = "update"
    /\ lastRun.outcome = "ok"
    /\ lastRun.configured
    /\ Includes(lastRun.selectedServers, "serena")
    /\ "serena" \notin DOMAIN lastRun.apiKeys
    /\ HasEnv(ServersOf(mcp), "serena")
    /\ ServersOf(mcp)["serena"].env = [SERENA_LOG |-> "debug"]

\* C6: an update without morph flags reconciles mcp.json with the list the
\* version marker held, and writes that list to the new marker
C6_UpdateKeepsSelection ==
    [][( /\ lastRun'.op = "update"
         /\ lastRun'.outcome = "ok"
         /\ lastRun'.flags \cap {"--with-morph", "--morph-api-key"} = {}
         /\ version # NoFile
         /\ "mcpServers" \in DOMAIN version )
       => /\ lastRun'.configured
          /\ lastRun'.selectedServers = version.mcpServers
          /\ version'.mcpServers = version.mcpServers]_vars

\* C7 as claimed: a managed entry present before and not selected is still
\* present with the same value
C7_DeselectedKept ==
    MergeRan =>
        \A X \in RegistryNames :
            (X \in DOMAIN Before /\ ~Selected(X)) =>
                X \in DOMAIN After /\ After[X] = Before[X]

\* C7 as amended: a managed entry present before and not selected is absent from
\* the written mcpServers
C7_DeselectedRemoved ==
    MergeRan =>
        \A X \in RegistryNames : (X \in DOMAIN Before /\ ~Selected(X)) => X \notin DOMAIN After

\* C7's case: morphllm-fast-apply was configured and the selection left it out
C7_Witness ==
    /\ MergeRan
    /\ HasEnv(Before, MORPH)
    /\ ~Selected(MORPH)
    /\ Selected("serena")

\* C8: a registry name neither selected nor in the existing config is absent from
\* the written mcpServers
C8_NotNewlyCreated ==
    MergeRan =>
        \A X \in RegistryNames : (X \notin DOMAIN Before /\ ~Selected(X)) => X \notin DOMAIN After

\* C8's case: a selection that creates one managed entry and leaves another,
\* absent before, unrequested
C8_Witness ==
    /\ MergeRan
    /\ Selected("serena")
    /\ "serena" \notin DOMAIN Before
    /\ "serena" \in DOMAIN After
    /\ ~Selected(MORPH)
    /\ MORPH \notin DOMAIN Before

\* C9: every selected registry name has an entry whose fields other than env are
\* the registry's config for it
C9_LaunchConfigRefreshed ==
    MergeRan =>
        \A X \in RegistryNames :
            Selected(X) => X \in DOMAIN After /\ WithoutEnv(After[X]) = MCP_SERVERS[X].config

\* C9's case: the existing serena entry had an edited command and an extra key
C9_Witness ==
    /\ MergeRan
    /\ Selected("serena")
    /\ "serena" \in DOMAIN Before
    /\ Before["serena"] = EditedSerena

\* C10: a selected name that is not in the registry gets no entry (an entry of
\* that name is the user's own, unchanged), and the file written is the one
\* written for the selection without the unknown names
C10_UnknownNamesIgnored ==
    MergeRan =>
        /\ \A i \in 1..Len(lastRun.selectedServers) :
              LET n == lastRun.selectedServers[i]
              IN  (n \notin RegistryNames /\ n \in DOMAIN After) =>
                      n \in DOMAIN Before /\ After[n] = Before[n]
        /\ mcp = mergedConfig(lastRun.existing,
                              SelectSeq(lastRun.selectedServers,
                                        LAMBDA n : n \in RegistryNames),
                              lastRun.apiKeys)

\* the settings of a cli.json content (empty when the file is absent)
SettingsIn(file) == IF file = NoFile THEN EmptyObject ELSE file

\* setDefaultAgent has run on its own: lastRun.existing is what it read, cli
\* what it wrote
DefaultAgentSet == lastRun.op = "setDefaultAgent"

\* C11 as claimed: setDefaultAgent writes each of the four defaulted keys only
\* when it is absent; a key that is present keeps its value, whatever the value
C11_FirstWriteWins ==
    DefaultAgentSet =>
        \A k \in DefaultedKeys :
            k \in DOMAIN SettingsIn(lastRun.existing) => cli[k] = lastRun.existing[k]

\* C11 as amended: chat.model keeps its value when that value is truthy and is
\* 'claude-sonnet-4.5' otherwise; each of the three flags is false when its
\* value was false and true otherwise (absent, true or any other value)
C11_DefaultsUnlessSet ==
    DefaultAgentSet =>
        LET old == SettingsIn(lastRun.existing)
        IN  /\ cli["chat.model"] =
                   IF "chat.model" \in DOMAIN old
                      /\ old["chat.model"] \notin {Str(""), JsNull, Num(0), Bool(FALSE)}
                   THEN old["chat.model"] ELSE Str("claude-sonnet-4.5")
            /\ \A k \in DefaultedKeys \ {"chat.model"} :
                   cli[k] = IF k \in DOMAIN old /\ old[k] = Bool(FALSE)
                            THEN Bool(FALSE) ELSE Bool(TRUE)

\* C11's case: the file held a model, an explicit false and a non-boolean flag;
\* the first two are kept, the third is now true
C11_Witness ==
    /\ DefaultAgentSet
    /\ lastRun.existing # NoFile
    /\ Get(lastRun.existing, "chat.model") = Str("custom")
    /\ Get(lastRun.existing, "chat.enableThinking") = Str("yes")
    /\ Get(lastRun.existing, "chat.enableTodoList") = Bool(FALSE)
    /\ cli["chat.model"] = Str("custom")
    /\ cli["chat.enableThinking"] = Bool(TRUE)
    /\ cli["chat.enableTodoList"] = Bool(FALSE)

\* uninstall's reset of the default agent has run on its own
DefaultAgentReset == lastRun.op = "resetDefaultAgent"

\* C13: the reset removes chat.defaultAgent exactly when its value is
\* 'superclaude' and then keeps every other key with its value; with any other
\* value, without the key or without the file, cli.json is unchanged
C13_UnsetGuard ==
    DefaultAgentReset =>
        LET old == lastRun.existing
        IN  IF old # NoFile /\ "chat.defaultAgent" \in DOMAIN old
               /\ old["chat.defaultAgent"] = Str("superclaude")
            THEN /\ cli # NoFile
                 /\ DOMAIN cli = (DOMAIN old) \ {"chat.defaultAgent"}
                 /\ \A k \in DOMAIN cli : cli[k] = old[k]
            ELSE cli = old

\* C13's case: the key held 'superclaude' and is gone, while chat.model and theme
\* are kept
C13_Witness ==
    /\ DefaultAgentReset
    /\ lastRun.existing # NoFile
    /\ Get(lastRun.existing, "chat.defaultAgent") = Str("superclaude")
    /\ Get(lastRun.existing, "chat.model") = Str("custom")
    /\ Get(lastRun.existing, "theme") = Str("dark")
    /\ "chat.defaultAgent" \notin DOMAIN cli
    /\ cli["chat.model"] = Str("custom")
    /\ cli["theme"] = Str("dark")

\* the five settings installSuperClaude manages
ManagedSettings == DefaultedKeys \cup {"chat.defaultAgent"}

\* C12: a successful install or update that was not given --no-default leaves
\* chat.defaultAgent = 'superclaude' in cli.json, whatever it held, and changes
\* no key other than the five managed ones
C12_DefaultAgentSet ==
    [][( /\ lastRun'.op \in {"install", "update"}
         /\ lastRun'.outcome = "ok"
         /\ "--no-default" \notin lastRun'.flags )
       => /\ cli' # NoFile
          /\ "chat.defaultAgent" \in DOMAIN cli'
          /\ cli'["chat.defaultAgent"] = Str("superclaude")
          /\ (DOMAIN cli') \ ManagedSettings = (DOMAIN SettingsIn(cli)) \ ManagedSettings
          /\ \A k \in (DOMAIN cli') \ ManagedSettings : cli'[k] = cli[k]]_vars

\* C12's case: cli.json named another default agent and held a theme (only the
\* initial file does); after an install the agent is superclaude, the theme kept
C12_Witness ==
    /\ lastRun.op = "install"
    /\ lastRun.outcome = "ok"
    /\ "--no-default" \notin lastRun.flags
    /\ cli # NoFile
    /\ cli["chat.defaultAgent"] = Str("superclaude")
    /\ Get(cli, "theme") = Str("dark")

\* C14 as claimed: when a prompt of an install run is cancelled, whichever prompt
\* it is, configureMcpServers is not called and mcp.json, cli.json and the
\* version marker are what they were
C14_CancelLeavesFiles ==
    [][( /\ lastRun'.op = "install"
         /\ lastRun'.prompts \in {"select cancelled", "morph cancelled"} )
       => /\ ~lastRun'.configured
          /\ mcp' = mcp /\ cli' = cli /\ version' = version]_vars

\* C14 as amended: a cancelled server multi-select ends the run with exit code 0
\* and nothing changed; a cancelled MorphLLM prompt does not end the run, which
\* goes on as with any other answer: it reconciles mcp.json, with
\* morphllm-fast-apply selected only if a key was still typed, and writes the
\* version marker
C14_OnlySelectCancelAborts ==
    [][( /\ lastRun'.op \in {"install", "update"}
         /\ lastRun'.prompts \in {"select cancelled", "morph cancelled"} )
       => IF lastRun'.prompts = "select cancelled"
          THEN /\ lastRun'.outcome = "exit 0"
               /\ ~lastRun'.configured
               /\ UNCHANGED <<kiroDir, distDir, dirs, steering, agents, mcp, cli, version>>
          ELSE /\ lastRun'.outcome = "ok"
               /\ lastRun'.configured
               /\ Includes(lastRun'.selectedServers, MORPH)
                    <=> MORPH \in DOMAIN lastRun'.apiKeys
               /\ \A n \in RegistryNames :
                    Includes(lastRun'.selectedServers, n) <=> n \in DOMAIN ServersOf(mcp')
               /\ version' = versionMarker(lastRun'.selectedServers)
               /\ steering' = DistSteering]_vars

\* C14's case: an install had a MorphLLM prompt cancelled, gave no key, and wrote
\* the core servers to mcp.json and the version marker
C14_Witness ==
    /\ lastRun.op = "install"
    /\ lastRun.prompts = "morph cancelled"
    /\ lastRun.outcome = "ok"
    /\ lastRun.configured
    /\ ~Includes(lastRun.selectedServers, MORPH)
    /\ \A i \in 1..Len(CORE_SERVERS) : CORE_SERVERS[i] \in DOMAIN ServersOf(mcp)
    /\ version = versionMarker(CORE_SERVERS)

\* C15: an uninstall run leaves mcp.json as it was; it removes nothing but the
\* steering directory, the four agent files superclaude.json, sc-pm.json,
\* sc-implement.json and sc-analyze.json, the version marker and, at most, the
\* chat.defaultAgent key of cli.json
C15_UninstallKeepsMcp ==
    [][lastRun'.op = "uninstall"
       => /\ mcp' = mcp
          /\ UNCHANGED <<kiroDir, distDir>>
          /\ dirs' \subseteq dirs /\ dirs \ dirs' \subseteq {"steering/superclaude"}
          /\ agents' \subseteq agents
          /\ agents \ agents' \subseteq
                {"superclaude.json", "sc-pm.json", "sc-implement.json", "sc-analyze.json"}
          /\ \/ cli' = cli
             \/ /\ cli # NoFile /\ cli' # NoFile
                /\ DOMAIN cli' = (DOMAIN cli) \ {"chat.defaultAgent"}
                /\ \A k \in DOMAIN cli' : cli'[k] = cli[k]]_vars

\* C15's case: an uninstall has removed the installation, and mcp.json still
\* holds the servers an install wrote and the user's entry, the agents directory
\* the user's own agent
C15_Witness ==
    /\ lastRun.op = "uninstall"
    /\ lastRun.outcome = "ok"
    /\ version = NoFile
    /\ steering = {}
    /\ agents = UserAgents
    /\ {"serena", "my-server"} \subseteq DOMAIN ServersOf(mcp)

\* an install run ended in the catch block
InstallFailed == lastRun.op = "install" /\ lastRun.outcome \in FailedOutcomes

C17_PrechecksAbort ==
    [][( /\ lastRun'.op = "install"
         /\ \/ ~kiroDir
            \/ "steering/superclaude" \in dirs /\ "--force" \notin lastRun'.flags
            \/ ~distDir )
       => /\ lastRun'.outcome = "exit 1"
          /\ lastRun'.prompts = "none"
          /\ ~lastRun'.configured
          /\ UNCHANGED <<kiroDir, distDir, dirs, steering, agents, mcp, cli, version>>]_vars

\* C17's case: an install without --force found the installation of an earlier
\* install run and exited with code 1
C17_Witness ==
    /\ lastRun.op = "install"
    /\ lastRun.outcome = "exit 1"
    /\ "--force" \notin lastRun.flags
    /\ kiroDir /\ distDir
    /\ "steering/superclaude" \in dirs
    /\ version = versionMarker(CORE_SERVERS)

\* nothing of SuperClaude is there: neither the version marker nor the steering
\* directory
NothingInstalled == version = NoFile /\ "steering/superclaude" \notin dirs

\* C18: when SuperClaude is not installed, update and uninstall exit with code 1
\* and change no file, and status reports "Not installed"; status changes no file
\* in any state
C18_NotInstalled ==
    [][/\ NothingInstalled
          => /\ lastRun'.op \in {"update", "uninstall"}
                  => /\ lastRun'.outcome = "exit 1"
                     /\ UNCHANGED <<kiroDir, distDir, dirs, steering, agents, mcp, cli, version>>
             /\ lastRun'.op = "status"
                  => lastRun'.outcome \in
                         {"Not installed", "Not installed (Kiro CLI missing)"}
       /\ lastRun'.op = "status"
          => UNCHANGED <<kiroDir, distDir, dirs, steering, agents, mcp, cli, version>>]_vars

\* C18's case: after an install and an uninstall, a second uninstall found
\* nothing installed and exited with code 1
C18_Witness ==
    /\ NothingInstalled
    /\ lastRun.op = "uninstall"
    /\ lastRun.outcome = "exit 1"
    /\ "serena" \in DOMAIN ServersOf(mcp)

\* the version marker exists
MarkerExists == version # NoFile

\* C19: in every reachable state update, uninstall and status each take
\* SuperClaude for installed exactly when the version marker exists
C19_MarkerIsTheSignal ==
    /\ UpdateSeesInstalled = MarkerExists
    /\ UninstallSeesInstalled = MarkerExists
    /\ StatusSeesInstalled = MarkerExists

\* what holds of the code: update goes by the version marker alone, uninstall by
\* the steering directory alone, status by both; a run that completes leaves the
\* two both present or both absent, and only then do the three agree
EachItsOwnSignal ==
    [][/\ (lastRun'.op = "update" /\ distDir)
          => (lastRun'.outcome = "exit 1" <=> version = NoFile)
       /\ lastRun'.op = "uninstall"
          => (lastRun'.outcome = "exit 1" <=> "steering/superclaude" \notin dirs)
       /\ lastRun'.op = "status"
          => (lastRun'.outcome = "Installed"
                <=> (version # NoFile /\ "steering/superclaude" \in dirs))
       /\ (lastRun'.op \in {"install", "update"} /\ lastRun'.outcome = "ok")
          => (version' # NoFile /\ "steering/superclaude" \in dirs')
       /\ (lastRun'.op = "uninstall" /\ lastRun'.outcome = "ok")
          => (version' = NoFile /\ "steering/superclaude" \notin dirs')]_vars

\* C20: on every mcp.json that is absent or holds a JSON object (with or without
\* an mcpServers key), with every selection and API keys, configureMcpServers
\* throws nothing and writes a config, an object with the one key mcpServers; an
\* absent file is merged as the empty map
C20_MergeTotal ==
    ( /\ lastRun.op = "configureMcpServers"
      /\ lastRun.existing # JsNull )
    => /\ lastRun.outcome = "ok"
       /\ mcp # NoFile
       /\ DOMAIN mcp = {"mcpServers"}
       /\ lastRun.existing = NoFile
            => mcp = mergedConfig([mcpServers |-> EmptyObject], lastRun.selectedServers,
                                  lastRun.apiKeys)

\* C20's case: the file had no mcpServers key, the selection named an unknown
\* server and a registry one, no API key was given; a config was written
C20_Witness ==
    /\ MergeRan
    /\ lastRun.existing = [inputs |-> EmptyObject]
    /\ lastRun.selectedServers = <<"my-server", "serena">>
    /\ lastRun.apiKeys = EmptyObject
    /\ DOMAIN ServersOf(mcp) = {"serena"}

(***************************************************************************)
(* The specification's mergeServers (spec.md, ConfigReconciler)            *)
(***************************************************************************)
\* env of a body, the empty map when it has none
specEnvOf(body) == IF "env" \in DOMAIN body THEN body.env ELSE <<>>

\* steps 3b and 3c: the registry's launch config, with the credential injected
\* when the definition requires one and the call supplies it
specFreshBody(name, credentials) ==
    LET definition == MCP_SERVERS[name]
        launchConfig == definition.config
    IN  IF definition.requiresApiKey /\ name \in DOMAIN credentials
        THEN [k \in (DOMAIN launchConfig) \cup {"env"} |->
                 IF k = "env"
                 THEN (definition.apiKeyEnvVar :> credentials[name]) @@ specEnvOf(launchConfig)
                 ELSE launchConfig[k]]
        ELSE launchConfig

\* steps 3d and 3e: the body stored for a selected registry name
specBody(existing, name, credentials) ==
    LET definition == MCP_SERVERS[name]
        freshBody == specFreshBody(name, credentials)
    IN  IF name \in DOMAIN existing
        THEN LET merged == specEnvOf(existing[name]) @@ specEnvOf(freshBody)
                 mergedEnv ==
                     IF definition.requiresApiKey /\ name \in DOMAIN credentials
                     THEN (definition.apiKeyEnvVar :> credentials[name]) @@ merged
                     ELSE merged
             IN  [k \in ((DOMAIN freshBody) \ {"env"})
                        \cup (IF DOMAIN mergedEnv = {} THEN {} ELSE {"env"}) |->
                     IF k = "env" THEN mergedEnv ELSE freshBody[k]]
        ELSE freshBody

\* mergeServers(existing, selection, registry): the unmanaged entries verbatim,
\* and a body for every selected name the registry knows
specMergeServers(existing, names, credentials) ==
    LET unmanaged == (DOMAIN existing) \ RegistryNames
        selected == {n \in RegistryNames : Includes(names, n)}
    IN  [n \in unmanaged \cup selected |->
            IF n \in selected THEN specBody(existing, n, credentials) ELSE existing[n]]

\* C21: the mcpServers map configureMcpServers writes is the one mergeServers
\* gives for the existing map, the selection and the API keys
C21_RefinesMergeServers ==
    MergeRan => After = specMergeServers(Before, lastRun.selectedServers, lastRun.apiKeys)

\* what holds of the code: it agrees with mergeServers whenever no existing entry
\* and no selected name is a name that objects inherit
RefinesMergeServersOwnNames ==
    ( /\ MergeRan
      /\ (DOMAIN Before) \cap ObjectPrototypeKeys = {}
      /\ \A n \in ObjectPrototypeKeys : ~Selected(n) )
    => After = specMergeServers(Before, lastRun.selectedServers, lastRun.apiKeys)

\* the specification's example on this registry: serena with a stale body and the
\* user's my-server exist, serena and morphllm-fast-apply are selected with a key
\* for the latter
SpecExample ==
    ( /\ MergeRan
      /\ Before = ("serena" :> StaleSerena) @@ ("my-server" :> UserServer)
      /\ lastRun.selectedServers = <<"serena", MORPH>>
      /\ lastRun.apiKeys = (MORPH :> "key-AAAAAAAAAA") )
    => After = ("my-server" :> UserServer) @@ ("serena" :> MCP_SERVERS["serena"].config)
               @@ (MORPH :> Spread(MCP_SERVERS[MORPH].config,
                                   [env |-> [MORPH_API_KEY |-> "key-AAAAAAAAAA"]]))

(***************************************************************************)
(* install with every flag of the run kept in lastRun                      *)
(***************************************************************************)
AllFlags ==
    {"--force", "--no-mcp", "--no-default", "--no-interactive", "--minimal",
     "--with-morph", "--morph-api-key"}

\* ~/.kiro before the install: any mcp.json of InitMcp, nothing installed
InitFlags ==
    /\ kiroDir = TRUE
    /\ distDir = TRUE
    /\ mcp \in InitMcp
    /\ cli = NoFile
    /\ version = NoFile
    /\ dirs = IF mcp = NoFile THEN {} ELSE {"settings"}
    /\ steering = {}
    /\ agents = {}
    /\ lastRun = NoRun

\* superclaude-kiro install, with any flags
InstallFlags ==
    \E options \in InstallOptions, tty \in BOOLEAN :
        \E answer \in Answers(options, tty) :
            InstallRunRecording("install", options, tty, answer, AllFlags)

NextFlags == InstallFlags
SpecFlags == InitFlags /\ [][NextFlags]_vars

\* an install run given `flag` has ended well
InstallDone(flag) ==
    lastRun.op = "install" /\ lastRun.outcome = "ok" /\ flag \in lastRun.flags

\* C22: an install run with --no-mcp leaves mcp.json as it was (absent if it
\* was absent), never calls configureMcpServers and shows no prompt
C22_NoMcpLeavesMcpJson ==
    [][InstallDone("--no-mcp")' =>
          /\ mcp' = mcp
          /\ ~lastRun'.configured
          /\ lastRun'.prompts = "none"]_vars

\* an install --no-mcp, without --no-interactive and --minimal, has run on an
\* mcp.json that holds a managed entry
C22_Witness ==
    /\ InstallDone("--no-mcp")
    /\ lastRun.flags \cap {"--no-interactive", "--minimal"} = {}
    /\ mcp # NoFile
    /\ \E n \in DOMAIN mcp.mcpServers : IsManaged(n)
    /\ steering = DistSteering

\* C23: an install with --minimal and MCP enabled shows no prompt, and calls
\* configureMcpServers with, and records in the version marker, exactly the
\* registry's servers that need no API key, whatever the MorphLLM flags
C23_MinimalIsCore ==
    (InstallDone("--minimal") /\ "--no-mcp" \notin lastRun.flags)
    => /\ lastRun.configured
       /\ lastRun.selectedServers = CORE_SERVERS
       /\ version.mcpServers = CORE_SERVERS
       /\ {CORE_SERVERS[i] : i \in 1..Len(CORE_SERVERS)}
            = {n \in DOMAIN MCP_SERVERS : ~MCP_SERVERS[n].requiresApiKey}
       /\ \A i, j \in 1..Len(CORE_SERVERS) : CORE_SERVERS[i] = CORE_SERVERS[j] => i = j
       /\ lastRun.apiKeys = EmptyObject
       /\ lastRun.prompts = "none"

\* an install --minimal --with-morph --morph-api-key <key> has run, MCP enabled and
\* interactive mode not disabled
C23_Witness ==
    /\ InstallDone("--minimal")
    /\ {"--with-morph", "--morph-api-key"} \subseteq lastRun.flags
    /\ lastRun.flags \cap {"--no-mcp", "--no-interactive"} = {}
    /\ lastRun.configured

(***************************************************************************)
(* configureMcpServers in two steps, with another writer in between        *)
(***************************************************************************)
\* what the run selects, and what the other run selects
RaceSelections == {<<"serena">>, <<MORPH>>, <<"serena", MORPH>>, <<"context7">>}
RaceKeys == {EmptyObject, Assign(EmptyObject, MORPH, "key-AAAAAAAAAA")}

\* the entries a user adds by hand while the run is between its read and its write
EditNames == {"my-server", "notes-server"}

InitRace ==
    /\ kiroDir = TRUE
    /\ distDir = TRUE
    /\ mcp \in InitMcp
    /\ cli = NoFile
    /\ version = NoFile
    /\ dirs = IF mcp = NoFile THEN {} ELSE {"settings"}
    /\ steering = {}
    /\ agents = {}
    /\ lastRun = NoRun

\* a run is between its read of mcp.json and its write
InFlight == lastRun.op = "configureMcpServers" /\ lastRun.outcome = "read"

\* the first step of configureMcpServers: pathExists and readJson
ReadMcpJson(selectedServers, apiKeys) ==
    /\ ~InFlight
    /\ lastRun' = [Ran("configureMcpServers", "read", {}, TRUE, selectedServers, apiKeys)
                      EXCEPT !.existing = mcp]
    /\ UNCHANGED <<kiroDir, distDir, dirs, steering, agents, mcp, cli, version>>

\* the config the run writes with the file re-read at the time of the write
writtenConfig_rereads(read, current, selectedServers, apiKeys) ==
    mergedConfig(current, selectedServers, apiKeys)

\* the config the run writes: the merge of what it read, whatever the file holds
\* by now
writtenConfig(read, current, selectedServers, apiKeys) ==
    mergedConfig(read, selectedServers, apiKeys)

\* the rest of configureMcpServers: the merge, ensureDir and writeJson
WriteMcpJson ==
    /\ InFlight
    /\ IF mergeThrows(lastRun.existing)
       THEN /\ lastRun' = [lastRun EXCEPT !.outcome = "TypeError"]
            /\ UNCHANGED <<mcp, dirs>>
       ELSE /\ mcp' = writtenConfig(lastRun.existing, mcp, lastRun.selectedServers,
                                    lastRun.apiKeys)
            /\ dirs' = dirs \cup {"settings"}
            /\ lastRun' = [lastRun EXCEPT !.outcome = "ok", !.replaced = mcp]
    /\ UNCHANGED <<kiroDir, distDir, steering, agents, cli, version>>

\* another install or update run does its whole configureMcpServers while the
\* first is between read and write
OtherRun(selectedServers, apiKeys) ==
    /\ InFlight
    /\ ~mergeThrows(mcp)
    /\ mcp' = mergedConfig(mcp, selectedServers, apiKeys)
    /\ dirs' = dirs \cup {"settings"}
    /\ UNCHANGED <<kiroDir, distDir, steering, agents, cli, version, lastRun>>

\* the user adds an entry to mcp.json by hand while the run is between read and
\* write
UserEdit(name) ==
    /\ InFlight
    /\ mcp' = [mcpServers |-> (name :> UserServer) @@ ServersOf(mcp)]
    /\ dirs' = dirs \cup {"settings"}
    /\ UNCHANGED <<kiroDir, distDir, steering, agents, cli, version, lastRun>>

NextRace ==
    \/ \E selectedServers \in RaceSelections, apiKeys \in RaceKeys :
           ReadMcpJson(selectedServers, apiKeys)
    \/ WriteMcpJson
    \/ \E selectedServers \in RaceSelections, apiKeys \in RaceKeys :
           OtherRun(selectedServers, apiKeys)
    \/ \E name \in EditNames : UserEdit(name)

SpecRace == InitRace /\ [][NextRace]_vars

\* the names the other party put into mcp.json between the run's read and write
WrittenBetween == (DOMAIN ServersOf(lastRun.replaced)) \ DOMAIN Before

\* C24: the file a run leaves is its merge of the config it read, whatever was
\* written between its read and its write; of the entries the other party wrote
\* in between, only those the run itself selects are in the file
C24_LastWriterWins ==
    MergeRan =>
        /\ mcp = mergedConfig(lastRun.existing, lastRun.selectedServers, lastRun.apiKeys)
        /\ \A n \in WrittenBetween : n \in DOMAIN After => Selected(n)

\* a lost update: an entry the user or the other run wrote between the run's read
\* and its write is not in the file the run wrote
C24_Witness ==
    /\ MergeRan
    /\ \E n \in WrittenBetween \cap EditNames : n \notin DOMAIN After
    /\ \E n \in WrittenBetween \cap RegistryNames : n \notin DOMAIN After

\* an install or update run that called configureMcpServers has ended well
ConfiguredRun ==
    lastRun.op \in {"install", "update"} /\ lastRun.outcome = "ok" /\ lastRun.configured

\* C25: after a successful install or update with MCP enabled, the registry names
\* in mcp.json are exactly the registry names of the run's selection, and the
\* version marker lists that selection
C25_ManagedNamesAreSelection ==
    ConfiguredRun =>
        /\ (DOMAIN After) \cap RegistryNames = {n \in RegistryNames : Selected(n)}
        /\ version # NoFile
        /\ version.mcpServers = lastRun.selectedServers

\* an update has run on an mcp.json holding the user's my-server: the file holds
\* my-server and the registry's servers the run selected, which the marker lists
C25_Witness ==
    /\ ConfiguredRun
    /\ lastRun.op = "update"
    /\ "my-server" \in DOMAIN After
    /\ Selected("serena") /\ Selected("context7")
    /\ {"serena", "context7"} \subseteq DOMAIN After
    /\ Len(version.mcpServers) > 1

\* C26: when install or update calls configureMcpServers, morphllm-fast-apply is
\* in the selection exactly when apiKeys holds a key for it; the key is not
\* empty and is the MORPH_API_KEY of the entry written
C26_MorphOnlyWithKey ==
    ConfiguredRun =>
        /\ Selected(MORPH) <=> MORPH \in DOMAIN lastRun.apiKeys
        /\ Selected(MORPH) =>
              /\ lastRun.apiKeys[MORPH] # NoKey
              /\ HasEnv(After, MORPH)
              /\ "MORPH_API_KEY" \in DOMAIN After[MORPH].env
              /\ After[MORPH].env.MORPH_API_KEY = lastRun.apiKeys[MORPH]

\* an install --with-morph had the key typed at the prompt and wrote it to the
\* morphllm-fast-apply entry
C26_Witness ==
    /\ ConfiguredRun
    /\ lastRun.op = "install"
    /\ "--with-morph" \in lastRun.flags
    /\ Selected(MORPH)
    /\ lastRun.apiKeys[MORPH] \in TypedKeys
    /\ After[MORPH].env.MORPH_API_KEY \in TypedKeys

C28_SetDefaultAgentIdempotent ==
    lastRun.op = "setDefaultAgent"
    => /\ cli = setDefaultAgent(lastRun.existing)
       /\ setDefaultAgent(cli) = cli
       /\ setDefaultAgent(setDefaultAgent(lastRun.existing)) = setDefaultAgent(lastRun.existing)

\* setDefaultAgent has been applied to settings it had written itself (they hold
\* chat.enableTodoList = true, which no initial cli.json does) and left them as
\* they were, the user's theme included
C28_Witness ==
    /\ lastRun.op = "setDefaultAgent"
    /\ lastRun.existing = cli
    /\ cli # NoFile
    /\ cli["chat.enableTodoList"] = Bool(TRUE)
    /\ cli["chat.enableThinking"] = Bool(FALSE)
    /\ "theme" \in DOMAIN cli

\* a successful uninstall has just run
Uninstalled == lastRun.op = "uninstall" /\ lastRun.outcome = "ok"

\* C29: after a successful uninstall the steering directory and the version marker
\* are absent; a status that follows reports "Not installed", an update exits
\* with code 1, and an install without --force, the package's dist directory
\* there and no file operation failing, completes and leaves an installation
\* that can be uninstalled again
C29_UninstallThenInstall ==
    [][Uninstalled
       => /\ NothingInstalled
          /\ ~UpdateSeesInstalled /\ ~StatusSeesInstalled /\ ~UninstallSeesInstalled
          /\ lastRun'.op = "status" => lastRun'.outcome = "Not installed"
          /\ lastRun'.op = "update"
               => /\ lastRun'.outcome = "exit 1"
                  /\ UNCHANGED <<dirs, steering, agents, mcp, cli, version>>
          /\ ( /\ lastRun'.op = "install"
               /\ "--force" \notin lastRun'.flags
               /\ ~InstallFailed'
               /\ distDir )
               => /\ lastRun'.outcome = "ok"
                  /\ steering' = DistSteering
                  /\ MarkerExists'
                  /\ UninstallSeesInstalled' /\ UpdateSeesInstalled' /\ StatusSeesInstalled']_vars

\* an install without --force, with --no-default, has completed after an
\* uninstall: cli.json holds the defaults an earlier install wrote, which no
\* initial cli.json holds, without the default agent that the uninstall reset
C29_Witness ==
    /\ lastRun.op = "install"
    /\ lastRun.outcome = "ok"
    /\ lastRun.flags = {"--no-default"}
    /\ cli # NoFile
    /\ "chat.enableTodoList" \in DOMAIN cli
    /\ "chat.defaultAgent" \notin DOMAIN cli
    /\ steering = DistSteering
    /\ MarkerExists

\* the top-level keys of an mcp.json content
TopLevelKeys(file) == IF file = NoFile THEN {} ELSE DOMAIN file

\* C30: the mcp.json configureMcpServers writes has the one top-level key
\* mcpServers; no other top-level key of the file it read is in it
C30_OnlyMcpServers ==
    MergeRan =>
        /\ TopLevelKeys(mcp) = {"mcpServers"}
        /\ \A k \in TopLevelKeys(lastRun.existing) \ {"mcpServers"} : k \notin TopLevelKeys(mcp)

\* configureMcpServers has run on a file with the top-level keys mcpServers and
\* inputs: the user's entry is kept, the key inputs is gone
C30_Witness ==
    /\ MergeRan
    /\ TopLevelKeys(lastRun.existing) = {"mcpServers", "inputs"}
    /\ "my-server" \in DOMAIN Before
    /\ "my-server" \in DOMAIN After
    /\ "inputs" \notin TopLevelKeys(mcp)

====
